---- MODULE Spec2Model ----
(***************************************************************************)
(* Photon light-client bridge (snarkyjs zkApp).                            *)
(*                                                                         *)
(* The four-field contract `Photon` (initialize / update / register) with  *)
(* its entity types Signer, Block, BlockProof, SignerProof and the padded  *)
(* proof lists.                                                            *)
(*                                                                         *)
(* Modelling conventions                                                   *)
(*  - A Field is a tuple: the atom Field(n) is <<n>>, and Poseidon.hash of *)
(*    a list of fields is the free constructor <<-1, f1, ..., fk>>.  The   *)
(*    hash is therefore injective and never equals an atom (collision      *)
(*    resistance); equal inputs hash equally.  Merkle nodes use the same   *)
(*    Poseidon.hash([left, right]) as Block.hash(), as in snarkyjs.        *)
(*  - A public key is a number; toFields() is its (x, isOdd) pair.         *)
(*  - A Signature is the pair (signing key, signed field list);            *)
(*    Signature.verify compares both.                                      *)
(*  - A Merkle witness is the snarkyjs path: from the leaf level upwards,  *)
(*    one {isLeft, sibling} per level; a tree of height h has 2^(h-1)      *)
(*    leaves and its witnesses h-1 path elements.  The source's heights    *)
(*    (17 and 9) are scaled down to CelestiaTreeHeight / SignerTreeHeight. *)
(*  - The reducer's action log is the sequence of the action lists of the  *)
(*    committed transactions; an action state (signersTreeAccumulator) is  *)
(*    the number of action lists hashed into it, so                        *)
(*    Reducer.initialActionState is 0.  Actions dispatched by a method     *)
(*    become part of the log when its transaction is applied;              *)
(*    reducer.getActions reads the log as it is on the ledger when the     *)
(*    method runs.                                                         *)
(*  - In Spec a method call is one atomic step: the transaction is built   *)
(*    against the persisted state and sent at once.  In SpecRace callers   *)
(*    build transactions, keep them and send them later, so that a         *)
(*    transaction can meet a state other than the one it was built on.     *)
(*    `last` records the call and its outcome until the caller has         *)
(*    observed it.                                                         *)
(*  - Field arithmetic is modelled on naturals: the counts stay far below  *)
(*    the field order.                                                     *)
(***************************************************************************)
EXTENDS Integers, Sequences, FiniteSets, TLC

VARIABLES
    celestiaBlocksTree,      \* @state Field: Merkle root of the Block tree
    signerCount,             \* @state Field: number of registered Signers
    signersTree,             \* @state Field: Merkle root of the Signer tree
    signersTreeAccumulator,  \* @state Field: action state folded so far
    actions,                 \* reducer action log: one action list per committed transaction
    last,                    \* the last method call and its outcome ("none" once observed)
    initialized,             \* history: some initialize call has committed
    pending,                 \* per caller: the transaction it has built and not yet sent
    celestiaRootHash,        \* two-root contract, @state Field: root of the data-point tree
    signerRootHash           \* two-root contract, @state Field: root of the signer-key tree

vars == <<celestiaBlocksTree, signerCount, signersTree, signersTreeAccumulator, actions, last,
          initialized, pending, celestiaRootHash, signerRootHash>>

\* the state of the two-root contract of src/src/Photon.ts
twoRoots == <<celestiaRootHash, signerRootHash>>

persisted == <<celestiaBlocksTree, signerCount, signersTree, signersTreeAccumulator>>

----------------------------------------------------------------------------
(* Bounds of the model *)

CelestiaTreeHeight == 3   \* stands for MAX_CELESTIA_MERKLE_TREE_HEIGHT (17)
SignerTreeHeight == 4     \* stands for MAX_SIGNER_MERKLE_TREE_HEIGHT (9)
MaxAttesters == 3         \* most distinct valid attesters in an enumerated batch
MaxInitialCount == 5      \* largest initialSignerCount passed to initialize
MerkleTreeHeight == 3     \* stands for MAX_MERKLE_TREE_HEIGHT (32) of the two-root contract

----------------------------------------------------------------------------
(* Program constants *)

EMPTY_PUBLIC_KEY == 0
MAX_BLOCK_COUNT == 65536
MAX_SIGNER_COUNT == 200
UPDATE_PROVER_ARGS == 20
SIGNER_COUNT == 5          \* the test bench registers the keys 1..SIGNER_COUNT
INITIAL_HASH == <<0>>      \* Field(0), the initial value of both roots of the two-root contract

\* Field(n)
Field(n) == <<n>>

EMPTY_HASH == Field(0)

initialActionState == 0

\* Poseidon.hash(fields)
PoseidonHash(fields) == <<-1>> \o fields

\* PublicKey.toFields()
toFields(key) == <<Field(key), Field(key % 2)>>

----------------------------------------------------------------------------
(* Merkle trees and witnesses (snarkyjs MerkleTree / MerkleWitness) *)

RECURSIVE Pow2(_)
Pow2(n) == IF n = 0 THEN 1 ELSE 2 * Pow2(n - 1)

\* number of leaves of a MerkleTree of the given height
leafCount(height) == Pow2(height - 1)

\* MerkleTree.getNode(level, index) of the tree whose leaves are the function `leaves`
RECURSIVE getNode(_, _, _)
getNode(leaves, level, index) ==
    IF level = 0 THEN leaves[index]
    ELSE PoseidonHash(<<getNode(leaves, level - 1, 2 * index),
                        getNode(leaves, level - 1, 2 * index + 1)>>)

\* MerkleTree.getRoot()
getRoot(leaves, height) == getNode(leaves, height - 1, 0)

\* MerkleTree.getWitness(index)
getWitness(leaves, height, index) ==
    [level \in 1..(height - 1) |->
        LET pos == index \div Pow2(level - 1)
        IN  [isLeft |-> pos % 2 = 0,
             sibling |-> getNode(leaves, level - 1,
                                 IF pos % 2 = 0 THEN pos + 1 ELSE pos - 1)]]

\* MerkleWitness.calculateRoot(leaf)
RECURSIVE calculateRootFrom(_, _, _)
calculateRootFrom(witness, hash, i) ==
    IF i > Len(witness) THEN hash
    ELSE calculateRootFrom(witness,
            IF witness[i].isLeft
            THEN PoseidonHash(<<hash, witness[i].sibling>>)
            ELSE PoseidonHash(<<witness[i].sibling, hash>>),
            i + 1)

calculateRoot(witness, leaf) == calculateRootFrom(witness, leaf, 1)

\* MerkleWitness.calculateIndex()
RECURSIVE calculateIndexFrom(_, _)
calculateIndexFrom(witness, i) ==
    IF i > Len(witness) THEN 0
    ELSE (IF witness[i].isLeft THEN 0 ELSE Pow2(i - 1)) + calculateIndexFrom(witness, i + 1)

calculateIndex(witness) == calculateIndexFrom(witness, 1)

\* the empty tree of a height: every leaf Field(0)
emptyTree(height) == [i \in 0..(leafCount(height) - 1) |-> Field(0)]

\* CelestiaMerkleWitnessClass.empty() / SignerMerkleWitnessClass.empty()
CelestiaMerkleWitnessEmpty == getWitness(emptyTree(CelestiaTreeHeight), CelestiaTreeHeight, 0)
SignerMerkleWitnessEmpty == getWitness(emptyTree(SignerTreeHeight), SignerTreeHeight, 0)

----------------------------------------------------------------------------
(* Signature (external scheme): who signed which field list *)

\* Signature.create(privateKey, fields)
SignatureCreate(key, fields) == [signer |-> key, msg |-> fields]

\* Signature.verify(publicKey, fields)
SignatureVerify(signature, key, fields) ==
    signature.signer = key /\ signature.msg = fields

\* Signature.fromBase58(EMPTY_SIGNATURE): some signature of a key nobody registers
EMPTY_SIGNATURE == SignatureCreate(EMPTY_PUBLIC_KEY, <<>>)

----------------------------------------------------------------------------
(* Signer *)

Signer(key, witness, signingCount) ==
    [key |-> key, witness |-> witness, signingCount |-> signingCount]

SignerEmpty == Signer(EMPTY_PUBLIC_KEY, SignerMerkleWitnessEmpty, 0)

\* Signer.hash()
SignerHash(signer) ==
    PoseidonHash(toFields(signer.key) \o <<Field(signer.signingCount)>>)

\* Signer.check(root)
SignerCheck(signer, root) == root = calculateRoot(signer.witness, SignerHash(signer))

\* Signer.isEmpty()
SignerIsEmpty(signer) == signer.key = EMPTY_PUBLIC_KEY

\* Signer.sign()
SignerSign(signer) == Signer(signer.key, signer.witness, signer.signingCount + 1)

----------------------------------------------------------------------------
(* Block *)

Block(data, height, witness) == [data |-> data, height |-> height, witness |-> witness]

BlockEmpty == Block(0, 0, CelestiaMerkleWitnessEmpty)

\* Block.hash()
BlockHash(block) == PoseidonHash(<<Field(block.data), Field(block.height)>>)

----------------------------------------------------------------------------
(* BlockProof *)

BlockProof(signer, signedBlockHash, signedBlockHeight) ==
    [signer |-> signer, signedBlockHash |-> signedBlockHash,
     signedBlockHeight |-> signedBlockHeight]

BlockProofEmpty == BlockProof(SignerEmpty, EMPTY_SIGNATURE, 0)

\* BlockProof.isEmpty()
BlockProofIsEmpty(proof) == SignerIsEmpty(proof.signer)

\* BlockProof.verify(signerRoot, block)
BlockProofVerify(proof, signerRoot, block) ==
    /\ SignerCheck(proof.signer, signerRoot)
    /\ SignatureVerify(proof.signedBlockHash, proof.signer.key, <<BlockHash(block)>>)
    /\ proof.signedBlockHeight = block.height

----------------------------------------------------------------------------
(* SignerProof *)

SignerProof(signer, signedSignerHash) ==
    [signer |-> signer, signedSignerHash |-> signedSignerHash]

SignerProofEmpty == SignerProof(SignerEmpty, EMPTY_SIGNATURE)

\* SignerProof.isEmpty()
SignerProofIsEmpty(proof) == SignerIsEmpty(proof.signer)

\* SignerProof.verify(signerRoot, signer)
SignerProofVerify(proof, signerRoot, signer) ==
    /\ SignerCheck(proof.signer, signerRoot)
    /\ SignatureVerify(proof.signedSignerHash, proof.signer.key,
                       toFields(signer.key) \o <<Field(signer.signingCount)>>)

----------------------------------------------------------------------------
(* Padded proof lists.  A list is kept as the supplied prefix, the filler  *)
(* that pads it and its length; At reads slot i (1-based).                 *)

Min(a, b) == IF a < b THEN a ELSE b
Max(a, b) == IF a > b THEN a ELSE b

\* Array.prototype.splice(0, count): the removed head of the array
splice(provers, count) == SubSeq(provers, 1, Min(Len(provers), count))

\* fillWithEmptyBlockProofs(provers)
fillWithEmptyBlockProofs(provers) ==
    [prefix |-> provers, filler |-> BlockProofEmpty,
     length |-> Max(Len(provers), MAX_BLOCK_COUNT)]

\* fillWithEmptySignerProofs(provers)
fillWithEmptySignerProofs(provers) ==
    [prefix |-> provers, filler |-> SignerProofEmpty,
     length |-> Max(Len(provers), MAX_SIGNER_COUNT)]

\* new BlockProofList(provers).provers
BlockProofList(provers) == fillWithEmptyBlockProofs(splice(provers, MAX_SIGNER_COUNT))

\* new SignerProofList(provers).provers
SignerProofList(provers) == fillWithEmptySignerProofs(splice(provers, MAX_SIGNER_COUNT))

\* list.provers[i - 1]
At(list, i) == IF i <= Len(list.prefix) THEN list.prefix[i] ELSE list.filler

----------------------------------------------------------------------------
(* Reducer({ actionType: Signer }) *)

\* the action list one committed register transaction dispatched: the signer
\* of each of the MAX_SIGNER_COUNT scanned slots, then the new signer
dispatched(newSignerProvers, newSigner) ==
    [provers |-> newSignerProvers, newSigner |-> newSigner]

\* the j-th action (1-based) of an action list
actionAt(actionList, j) ==
    IF j <= MAX_SIGNER_COUNT THEN At(actionList.provers, j).signer
    ELSE actionList.newSigner

\* the actions of an action list in dispatch order: one per iteration of the
\* slot loop of register, then the new signer
actionsOf(actionList) ==
    [j \in 1..(MAX_SIGNER_COUNT + 1) |-> actionAt(actionList, j)]

\* reducer.getActions({ fromActionState })
getActions(log, fromActionState) == SubSeq(log, fromActionState + 1, Len(log))

\* the reduce callback of register: one queued action applied to the fold root
reduceCallback(acc, action) ==
    IF acc.state = calculateRoot(action.witness, SignerHash(action))
    THEN [ok |-> TRUE,
          state |-> calculateRoot(action.witness, SignerHash(SignerSign(action)))]
    ELSE [ok |-> FALSE, state |-> acc.state]

\* the callback over the actions j.. of one action list, in dispatch order
RECURSIVE reduceActionList(_, _, _)
reduceActionList(actionList, j, acc) ==
    IF ~acc.ok \/ j > MAX_SIGNER_COUNT + 1 THEN acc
    ELSE reduceActionList(actionList, j + 1, reduceCallback(acc, actionAt(actionList, j)))

\* reducer.reduce(actionLists, Field, callback, { state, actionState })
RECURSIVE reduceFrom(_, _, _)
reduceFrom(actionLists, n, acc) ==
    IF ~acc.ok \/ n > Len(actionLists) THEN acc
    ELSE LET folded == reduceActionList(actionLists[n], 1, [ok |-> TRUE, state |-> acc.state])
         IN  reduceFrom(actionLists, n + 1,
                        [ok |-> folded.ok, state |-> folded.state,
                         actionState |-> acc.actionState + 1])

reduce(actionLists, state, actionState) ==
    reduceFrom(actionLists, 1, [ok |-> TRUE, state |-> state, actionState |-> actionState])

----------------------------------------------------------------------------
(* Transactions.  Running a method against the state builds a transaction: *)
(* the preconditions its state assertions put on the fields (asserted,     *)
(* expected), the fields it sets (written, values) and the actions it      *)
(* dispatches; ok is false when an assertion on the method's own values    *)
(* fails, and then there is nothing to send.  Sending the transaction      *)
(* applies all of it if every precondition holds on the state it meets,    *)
(* and nothing otherwise.                                                  *)

\* built: the assertions of the method on its own values passed, so that a
\* transaction was built; before: the persisted fields the call met
NoCall == [op |-> "none", outcome |-> "none", built |-> FALSE, before |-> <<>>, args |-> <<>>]

NoTransaction == [op |-> "none"]

\* the accounts that send transactions
Callers == {"deployer", "sender"}

\* the persisted fields as this.<field>.get() reads them
onChain ==
    [celestiaBlocksTree |-> celestiaBlocksTree, signerCount |-> signerCount,
     signersTree |-> signersTree, signersTreeAccumulator |-> signersTreeAccumulator]

\* the preconditions of a transaction hold on the present state
preconditionsHold(tx) == \A f \in tx.asserted : onChain[f] = tx.expected[f]

\* the value a field has after a transaction was sent
fieldAfter(tx, applies, f) ==
    IF applies /\ f \in tx.written THEN tx.values[f] ELSE onChain[f]

\* a transaction applied field by field: each written field whose own
\* precondition holds is set
submitFieldwise(tx) ==
    LET applies == tx.ok /\ preconditionsHold(tx)
        partly(f) == tx.ok /\ (f \in tx.asserted => onChain[f] = tx.expected[f])
    IN  /\ celestiaBlocksTree' = fieldAfter(tx, partly("celestiaBlocksTree"), "celestiaBlocksTree")
        /\ signerCount' = fieldAfter(tx, partly("signerCount"), "signerCount")
        /\ signersTree' = fieldAfter(tx, partly("signersTree"), "signersTree")
        /\ signersTreeAccumulator' =
               fieldAfter(tx, partly("signersTreeAccumulator"), "signersTreeAccumulator")
        /\ actions' = IF applies THEN actions \o tx.dispatch ELSE actions
        /\ initialized' = (initialized \/ (applies /\ tx.op = "initialize"))
        /\ last' = [op |-> tx.op,
                    outcome |-> IF applies THEN "committed" ELSE "rejected",
                    built |-> tx.ok,
                    before |-> onChain,
                    args |-> tx.args]

\* a transaction whose dispatched actions reach the log whether it is applied or not
submitDispatchingAlways(tx) ==
    LET applies == tx.ok /\ preconditionsHold(tx)
    IN  /\ celestiaBlocksTree' = fieldAfter(tx, applies, "celestiaBlocksTree")
        /\ signerCount' = fieldAfter(tx, applies, "signerCount")
        /\ signersTree' = fieldAfter(tx, applies, "signersTree")
        /\ signersTreeAccumulator' = fieldAfter(tx, applies, "signersTreeAccumulator")
        /\ actions' = actions \o tx.dispatch
        /\ initialized' = (initialized \/ (applies /\ tx.op = "initialize"))
        /\ last' = [op |-> tx.op,
                    outcome |-> IF applies THEN "committed" ELSE "rejected",
                    built |-> tx.ok,
                    before |-> onChain,
                    args |-> tx.args]

\* a transaction is sent: it is applied as a whole or not at all
submit(tx) ==
    LET applies == tx.ok /\ preconditionsHold(tx)
    IN  /\ celestiaBlocksTree' = fieldAfter(tx, applies, "celestiaBlocksTree")
        /\ signerCount' = fieldAfter(tx, applies, "signerCount")
        /\ signersTree' = fieldAfter(tx, applies, "signersTree")
        /\ signersTreeAccumulator' = fieldAfter(tx, applies, "signersTreeAccumulator")
        /\ actions' = IF applies THEN actions \o tx.dispatch ELSE actions
        /\ initialized' = (initialized \/ (applies /\ tx.op = "initialize"))
        /\ last' = [op |-> tx.op,
                    outcome |-> IF applies THEN "committed" ELSE "rejected",
                    built |-> tx.ok,
                    before |-> onChain,
                    args |-> tx.args]

----------------------------------------------------------------------------
(* Photon: the contract *)

\* Photon.init(): the state of a freshly deployed contract
Init ==
    /\ celestiaBlocksTree = EMPTY_HASH
    /\ signerCount = 0
    /\ signersTree = EMPTY_HASH
    /\ signersTreeAccumulator = initialActionState
    /\ actions = <<>>
    /\ last = NoCall
    /\ initialized = FALSE
    /\ pending = [c \in Callers |-> NoTransaction]
    /\ celestiaRootHash = INITIAL_HASH
    /\ signerRootHash = INITIAL_HASH

\* initialize without the assertion that signerCount is still 0
initializeWithoutCountAssertion(initialCelestiaRootHash, initialSignerCount, initialSignerRootHash) ==
    [op |-> "initialize",
     args |-> [initialCelestiaRootHash |-> initialCelestiaRootHash,
               initialSignerCount |-> initialSignerCount,
               initialSignerRootHash |-> initialSignerRootHash],
     ok |-> TRUE,
     asserted |-> {"celestiaBlocksTree", "signersTree"},
     expected |-> [onChain EXCEPT !.celestiaBlocksTree = EMPTY_HASH,
                                  !.signerCount = 0,
                                  !.signersTree = EMPTY_HASH],
     written |-> {"celestiaBlocksTree", "signerCount", "signersTree"},
     values |-> [onChain EXCEPT !.celestiaBlocksTree = initialCelestiaRootHash,
                                !.signerCount = initialSignerCount,
                                !.signersTree = initialSignerRootHash],
     dispatch |-> <<>>]

\* initialize forgetting to set signersTree
initializeWithoutSignersTree(initialCelestiaRootHash, initialSignerCount, initialSignerRootHash) ==
    [op |-> "initialize",
     args |-> [initialCelestiaRootHash |-> initialCelestiaRootHash,
               initialSignerCount |-> initialSignerCount,
               initialSignerRootHash |-> initialSignerRootHash],
     ok |-> TRUE,
     asserted |-> {"celestiaBlocksTree", "signerCount", "signersTree"},
     expected |-> [onChain EXCEPT !.celestiaBlocksTree = EMPTY_HASH,
                                  !.signerCount = 0,
                                  !.signersTree = EMPTY_HASH],
     written |-> {"celestiaBlocksTree", "signerCount"},
     values |-> [onChain EXCEPT !.celestiaBlocksTree = initialCelestiaRootHash,
                                !.signerCount = initialSignerCount],
     dispatch |-> <<>>]

\* Photon.initialize(initialCelestiaRootHash, initialSignerCount, initialSignerRootHash)
initialize(initialCelestiaRootHash, initialSignerCount, initialSignerRootHash) ==
    [op |-> "initialize",
     args |-> [initialCelestiaRootHash |-> initialCelestiaRootHash,
               initialSignerCount |-> initialSignerCount,
               initialSignerRootHash |-> initialSignerRootHash],
     ok |-> TRUE,
     asserted |-> {"celestiaBlocksTree", "signerCount", "signersTree"},
     expected |-> [onChain EXCEPT !.celestiaBlocksTree = EMPTY_HASH,
                                  !.signerCount = 0,
                                  !.signersTree = EMPTY_HASH],
     written |-> {"celestiaBlocksTree", "signerCount", "signersTree"},
     values |-> [onChain EXCEPT !.celestiaBlocksTree = initialCelestiaRootHash,
                                !.signerCount = initialSignerCount,
                                !.signersTree = initialSignerRootHash],
     dispatch |-> <<>>]

\* the threshold with a strict comparison
quorumReachedStrict(currSignerCount, count) == currSignerCount * 10 > count * 6

\* the 60% threshold of update and register
quorumReached(currSignerCount, count) == currSignerCount * 10 >= count * 6

\* the slot loop of update counting every slot, the empty ones too
updateSlotsCountingEmpty(acc, prover, slots, root, newBlock) ==
    [allValid |-> acc.allValid /\ (slots = 0 \/ BlockProofIsEmpty(prover)
                                   \/ BlockProofVerify(prover, root, newBlock)),
     currSignerCount |-> acc.currSignerCount + slots]

\* the slot loop of update passing over the slots that do not verify
updateSlotsSkippingInvalid(acc, prover, slots, root, newBlock) ==
    [allValid |-> acc.allValid,
     currSignerCount |-> acc.currSignerCount
                         + (IF ~BlockProofIsEmpty(prover) /\ BlockProofVerify(prover, root, newBlock)
                            THEN slots ELSE 0)]

\* one iteration of the slot loop of update: allValid and currSignerCount
\* after `slots` consecutive slots that hold `prover`
updateSlots(acc, prover, slots, root, newBlock) ==
    [allValid |-> acc.allValid /\ (slots = 0 \/ BlockProofIsEmpty(prover)
                                   \/ BlockProofVerify(prover, root, newBlock)),
     currSignerCount |-> acc.currSignerCount
                         + (IF BlockProofIsEmpty(prover) THEN 0 ELSE slots)]

\* the slot loop of update leaving the loop at the first empty slot
RECURSIVE updateScanUntilEmpty(_, _, _, _, _)
updateScanUntilEmpty(provers, root, newBlock, i, acc) ==
    IF i > MAX_SIGNER_COUNT \/ i > Len(provers.prefix) THEN acc
    ELSE IF BlockProofIsEmpty(At(provers, i)) THEN acc
         ELSE updateScanUntilEmpty(provers, root, newBlock, i + 1,
                                   updateSlots(acc, At(provers, i), 1, root, newBlock))

\* the slot loop of update from slot i on, over the first MAX_SIGNER_COUNT
\* slots: the supplied slots one by one, then the filler slots, which all
\* hold the same proof, at once
RECURSIVE updateScan(_, _, _, _, _)
updateScan(provers, root, newBlock, i, acc) ==
    IF i > MAX_SIGNER_COUNT THEN acc
    ELSE IF i > Len(provers.prefix)
         THEN updateSlots(acc, provers.filler, Min(provers.length, MAX_SIGNER_COUNT) - i + 1,
                          root, newBlock)
         ELSE updateScan(provers, root, newBlock, i + 1,
                         updateSlots(acc, At(provers, i), 1, root, newBlock))

\* update with a check that the slot of the witness is unused in the current tree
updateAllowedOnUnusedSlot(newBlock, proverArgs) ==
    LET scan == updateScan(BlockProofList(proverArgs), signersTree, newBlock, 1,
                           [allValid |-> TRUE, currSignerCount |-> 0])
    IN  /\ signerCount # 0
        /\ celestiaBlocksTree = calculateRoot(newBlock.witness, Field(0))
        /\ scan.allValid
        /\ quorumReached(scan.currSignerCount, signerCount)

\* the assertions of update on the values it computes
updateAllowed(newBlock, proverArgs) ==
    LET scan == updateScan(BlockProofList(proverArgs), signersTree, newBlock, 1,
                           [allValid |-> TRUE, currSignerCount |-> 0])
    IN  /\ signerCount # 0
        /\ scan.allValid
        /\ quorumReached(scan.currSignerCount, signerCount)

\* the root update commits
newCelestiaBlocksTree(newBlock) == calculateRoot(newBlock.witness, BlockHash(newBlock))

\* update with the dispatch of every scanned signer left enabled
updateDispatching(newBlock, proverArgs) ==
    [op |-> "update",
     args |-> [newBlock |-> newBlock, provers |-> proverArgs],
     ok |-> updateAllowed(newBlock, proverArgs),
     asserted |-> {"celestiaBlocksTree", "signerCount", "signersTree", "signersTreeAccumulator"},
     expected |-> onChain,
     written |-> {"celestiaBlocksTree"},
     values |-> [onChain EXCEPT !.celestiaBlocksTree = newCelestiaBlocksTree(newBlock)],
     dispatch |-> <<[provers |-> BlockProofList(proverArgs), newSigner |-> SignerEmpty]>>]

\* Photon.update(newBlock, prover1, ..., prover20)
update(newBlock, proverArgs) ==
    [op |-> "update",
     args |-> [newBlock |-> newBlock, provers |-> proverArgs],
     ok |-> updateAllowed(newBlock, proverArgs),
     asserted |-> {"celestiaBlocksTree", "signerCount", "signersTree", "signersTreeAccumulator"},
     expected |-> onChain,
     written |-> {"celestiaBlocksTree"},
     values |-> [onChain EXCEPT !.celestiaBlocksTree = newCelestiaBlocksTree(newBlock)],
     dispatch |-> <<>>]

\* one iteration of the slot loop of register after `slots` consecutive slots
\* that hold `prover`: every slot empty or valid; currSignerCount is never
\* reassigned (the result of currSignerCount.add is discarded)
registerSlots(acc, prover, slots, root, newSigner) ==
    [allValid |-> acc.allValid /\ (slots = 0 \/ SignerProofIsEmpty(prover)
                                   \/ SignerProofVerify(prover, root, newSigner)),
     currSignerCount |-> acc.currSignerCount]

\* the slot loop of register from slot i on (supplied slots one by one, the
\* filler slots at once)
RECURSIVE registerScan(_, _, _, _, _)
registerScan(provers, root, newSigner, i, acc) ==
    IF i > MAX_SIGNER_COUNT THEN acc
    ELSE IF i > Len(provers.prefix)
         THEN registerSlots(acc, provers.filler, Min(provers.length, MAX_SIGNER_COUNT) - i + 1,
                            root, newSigner)
         ELSE registerScan(provers, root, newSigner, i + 1,
                           registerSlots(acc, At(provers, i), 1, root, newSigner))

\* register without the empty-slot check
slotIsFreeUnchecked(newSigner) == TRUE

\* the empty-slot check of register
slotIsFree(newSigner) == signersTree = calculateRoot(newSigner.witness, BlockHash(BlockEmpty))

\* the fold of register over the log as read by getActions
registerFold ==
    reduce(getActions(actions, signersTreeAccumulator), signersTree, signersTreeAccumulator)

\* register without the assertion on the signingCount of the new signer
registerAllowedAnySigningCount(newSigner, newSignerProvers) ==
    LET scan == registerScan(newSignerProvers, signersTree, newSigner, 1,
                             [allValid |-> TRUE, currSignerCount |-> 0])
    IN  /\ slotIsFree(newSigner)
        /\ scan.allValid
        /\ quorumReached(scan.currSignerCount, signerCount)
        /\ registerFold.ok

\* register verifying its provers against the root with the new signer in place
registerAllowedAgainstNewRoot(newSigner, newSignerProvers) ==
    LET scan == registerScan(newSignerProvers,
                             calculateRoot(newSigner.witness, SignerHash(SignerSign(newSigner))),
                             newSigner, 1,
                             [allValid |-> TRUE, currSignerCount |-> 0])
    IN  /\ newSigner.signingCount = 0
        /\ slotIsFree(newSigner)
        /\ scan.allValid
        /\ quorumReached(scan.currSignerCount, signerCount)
        /\ registerFold.ok

\* the assertions of register on the values it computes
registerAllowed(newSigner, newSignerProvers) ==
    LET scan == registerScan(newSignerProvers, signersTree, newSigner, 1,
                             [allValid |-> TRUE, currSignerCount |-> 0])
    IN  /\ newSigner.signingCount = 0
        /\ slotIsFree(newSigner)
        /\ scan.allValid
        /\ quorumReached(scan.currSignerCount, signerCount)
        /\ registerFold.ok

\* register forgetting to count the new signer
registerWithoutCount(newSigner, newSignerProvers) ==
    [op |-> "register",
     args |-> [newSigner |-> newSigner, provers |-> newSignerProvers],
     ok |-> registerAllowed(newSigner, newSignerProvers),
     asserted |-> {"signerCount", "signersTree", "signersTreeAccumulator"},
     expected |-> onChain,
     written |-> {"signersTree", "signersTreeAccumulator"},
     values |-> [onChain EXCEPT !.signersTree = registerFold.state,
                                !.signersTreeAccumulator = registerFold.actionState],
     dispatch |-> <<dispatched(newSignerProvers, newSigner)>>]

\* register without the precondition on signerCount
registerWithoutCountPrecondition(newSigner, newSignerProvers) ==
    [op |-> "register",
     args |-> [newSigner |-> newSigner, provers |-> newSignerProvers],
     ok |-> registerAllowed(newSigner, newSignerProvers),
     asserted |-> {"signersTree", "signersTreeAccumulator"},
     expected |-> onChain,
     written |-> {"signerCount", "signersTree", "signersTreeAccumulator"},
     values |-> [onChain EXCEPT !.signerCount = signerCount + 1,
                                !.signersTree = registerFold.state,
                                !.signersTreeAccumulator = registerFold.actionState],
     dispatch |-> <<dispatched(newSignerProvers, newSigner)>>]

\* register without the preconditions on the state it read
registerUnguarded(newSigner, newSignerProvers) ==
    [op |-> "register",
     args |-> [newSigner |-> newSigner, provers |-> newSignerProvers],
     ok |-> registerAllowed(newSigner, newSignerProvers),
     asserted |-> {},
     expected |-> onChain,
     written |-> {"signerCount", "signersTree", "signersTreeAccumulator"},
     values |-> [onChain EXCEPT !.signerCount = signerCount + 1,
                                !.signersTree = registerFold.state,
                                !.signersTreeAccumulator = registerFold.actionState],
     dispatch |-> <<dispatched(newSignerProvers, newSigner)>>]

\* Photon.register(newSigner, newSignerProvers)
register(newSigner, newSignerProvers) ==
    [op |-> "register",
     args |-> [newSigner |-> newSigner, provers |-> newSignerProvers],
     ok |-> registerAllowed(newSigner, newSignerProvers),
     asserted |-> {"signerCount", "signersTree", "signersTreeAccumulator"},
     expected |-> onChain,
     written |-> {"signerCount", "signersTree", "signersTreeAccumulator"},
     values |-> [onChain EXCEPT !.signerCount = signerCount + 1,
                                !.signersTree = registerFold.state,
                                !.signersTreeAccumulator = registerFold.actionState],
     dispatch |-> <<dispatched(newSignerProvers, newSigner)>>]

\* a caller runs a method and sends the transaction at once
invoke(tx) ==
    /\ last.op = "none"
    /\ submit(tx)
    /\ UNCHANGED <<pending, twoRoots>>

\* a caller runs a method and keeps the transaction for later; a method whose
\* own assertions fail yields no transaction
prepare(c, tx) ==
    /\ last.op = "none"
    /\ pending[c].op = "none"
    /\ IF tx.ok
       THEN /\ pending' = [pending EXCEPT ![c] = tx]
            /\ UNCHANGED last
       ELSE /\ last' = [op |-> tx.op, outcome |-> "rejected", built |-> FALSE,
                        before |-> onChain, args |-> tx.args]
            /\ UNCHANGED pending
    /\ UNCHANGED <<persisted, actions, initialized, twoRoots>>

\* a caller sends the transaction it kept
send(c) ==
    /\ last.op = "none"
    /\ pending[c].op # "none"
    /\ submit(pending[c])
    /\ pending' = [pending EXCEPT ![c] = NoTransaction]
    /\ UNCHANGED twoRoots

\* the caller takes note of the outcome of its call
observe ==
    /\ last.op # "none"
    /\ last' = NoCall
    /\ UNCHANGED <<persisted, actions, initialized, pending, twoRoots>>

----------------------------------------------------------------------------
(* The callers: the trees they keep off-chain and the inputs they submit *)

\* is `root` the root of some tree of `levels` levels above the leaves
RECURSIVE isTreeRoot(_, _)
isTreeRoot(root, levels) ==
    \/ levels = 0
    \/ /\ Len(root) = 3
       /\ root[1] = -1
       /\ isTreeRoot(root[2], levels - 1)
       /\ isTreeRoot(root[3], levels - 1)

\* the leaf at `index` below a node that has `levels` levels above the leaves
RECURSIVE leafBelow(_, _, _)
leafBelow(node, levels, index) ==
    IF levels = 0 THEN node
    ELSE IF index < Pow2(levels - 1)
         THEN leafBelow(node[2], levels - 1, index)
         ELSE leafBelow(node[3], levels - 1, index - Pow2(levels - 1))

\* the off-chain tree a caller holds for a persisted root (the empty tree
\* when the root is not the root of a tree of that height)
treeOf(root, height) ==
    IF isTreeRoot(root, height - 1)
    THEN [i \in 0..(leafCount(height) - 1) |-> leafBelow(root, height - 1, i)]
    ELSE emptyTree(height)

\* the registered signer i (1..SIGNER_COUNT) as first registered: slot i - 1, signingCount 0
registeredSigner(i, witness) == Signer(i, witness, 0)

\* the signer tree of the test bench: the registered signers, then `padding`
\* in every further slot below MAX_SIGNER_COUNT
signerTreeLeaves(padding) ==
    [i \in 0..(leafCount(SignerTreeHeight) - 1) |->
        IF i < SIGNER_COUNT THEN SignerHash(registeredSigner(i + 1, SignerMerkleWitnessEmpty))
        ELSE IF i < MAX_SIGNER_COUNT THEN padding
        ELSE Field(0)]

InitialCelestiaRoots == {EMPTY_HASH, getRoot(emptyTree(CelestiaTreeHeight), CelestiaTreeHeight)}

InitialSignerRoots ==
    {EMPTY_HASH,
     getRoot(signerTreeLeaves(SignerHash(SignerEmpty)), SignerTreeHeight),
     getRoot(signerTreeLeaves(BlockHash(BlockEmpty)), SignerTreeHeight)}

InitialSignerCounts == 0..MaxInitialCount

\* the key of the signer that asks to be registered, and of a stranger
newSignerKey == SIGNER_COUNT + 1
strangerKey == SIGNER_COUNT + 2

\* the witnesses the callers hold for the slots 0..SIGNER_COUNT of the current
\* signersTree (signer i sits in slot i - 1; slot SIGNER_COUNT is the first unused one)
signerWitnesses ==
    LET tree == treeOf(signersTree, SignerTreeHeight)
    IN  [slot \in 0..SIGNER_COUNT |-> getWitness(tree, SignerTreeHeight, slot)]

\* the (data, height) pairs submitted to update: two commitments for height 0,
\* one for height 1
NewEntries == {<<1, 0>>, <<2, 0>>, <<1, 1>>}

\* the witnesses submitted with a block: the caller's, for slot 0 or 1 of its
\* copy of the current tree, or the witness for slot 0 of an empty tree,
\* computed before any block was added
NewBlockWitnesses ==
    { getWitness(treeOf(celestiaBlocksTree, CelestiaTreeHeight), CelestiaTreeHeight, slot) :
        slot \in {0, 1} }
    \cup {CelestiaMerkleWitnessEmpty}

\* the blocks submitted to update
NewBlocks ==
    { Block(entry[1], entry[2], witness) :
        entry \in NewEntries, witness \in NewBlockWitnesses }

\* signBlock of the test bench, and the BlockProof signer i builds from it
attestBlock(i, newBlock, witnesses) ==
    BlockProof(registeredSigner(i, witnesses[i - 1]),
               SignatureCreate(i, <<BlockHash(newBlock)>>),
               newBlock.height)

\* what follows the valid attestations in a submitted batch
BlockBatchTails(newBlock, witnesses) ==
    { <<>>,
      \* signer 1 once more
      <<attestBlock(1, newBlock, witnesses)>>,
      \* signer 1 twice more
      <<attestBlock(1, newBlock, witnesses), attestBlock(1, newBlock, witnesses)>>,
      \* a registered signer whose signature is over another message
      <<BlockProof(registeredSigner(SIGNER_COUNT, witnesses[SIGNER_COUNT - 1]),
                   SignatureCreate(SIGNER_COUNT, <<Field(newBlock.data)>>),
                   newBlock.height)>>,
      \* a registered signer who signed the block for another height
      <<BlockProof(registeredSigner(SIGNER_COUNT, witnesses[SIGNER_COUNT - 1]),
                   SignatureCreate(SIGNER_COUNT, <<BlockHash(newBlock)>>),
                   newBlock.height + 1)>>,
      \* a key that is not in the signer tree
      <<BlockProof(Signer(strangerKey, SignerMerkleWitnessEmpty, 0),
                   SignatureCreate(strangerKey, <<BlockHash(newBlock)>>),
                   newBlock.height)>> }

\* the batches submitted to update: n distinct valid attestations and a tail,
\* or an empty slot and n distinct valid attestations
BlockBatches(newBlock, witnesses) ==
    { [i \in 1..n |-> attestBlock(i, newBlock, witnesses)] \o tail :
        n \in 0..MaxAttesters, tail \in BlockBatchTails(newBlock, witnesses) }
    \cup { <<BlockProofEmpty>> \o [i \in 1..n |-> attestBlock(i, newBlock, witnesses)] :
            n \in 0..MaxAttesters }

\* n valid provers for a block, the registered signers attesting in turn
attestInTurn(n, newBlock, witnesses) ==
    [i \in 1..n |-> attestBlock(((i - 1) % SIGNER_COUNT) + 1, newBlock, witnesses)]

\* the twenty prover arguments of update: the batch, then BlockProof.empty()
proverArguments(batch) ==
    [i \in 1..UPDATE_PROVER_ARGS |-> IF i <= Len(batch) THEN batch[i] ELSE BlockProofEmpty]

\* the signers that ask to be registered: for an occupied slot or the first unused one
NewSigners(witnesses) ==
    { Signer(newSignerKey, witnesses[slot], signingCount) :
        signingCount \in {0, 1}, slot \in {0, SIGNER_COUNT} }

\* the SignerProof signer i builds over the fields of the new signer
attestSigner(i, newSigner, witnesses) ==
    SignerProof(registeredSigner(i, witnesses[i - 1]),
                SignatureCreate(i, toFields(newSigner.key) \o <<Field(newSigner.signingCount)>>))

SignerBatchTails(newSigner, witnesses) ==
    { <<>>,
      \* signer 1 once more
      <<attestSigner(1, newSigner, witnesses)>>,
      \* signSigner of the test bench: the signature is over the hash of the new signer
      <<SignerProof(registeredSigner(SIGNER_COUNT, witnesses[SIGNER_COUNT - 1]),
                    SignatureCreate(SIGNER_COUNT, <<SignerHash(newSigner)>>))>>,
      \* a key that is not in the signer tree
      <<SignerProof(Signer(strangerKey, SignerMerkleWitnessEmpty, 0),
                    SignatureCreate(strangerKey,
                        toFields(newSigner.key) \o <<Field(newSigner.signingCount)>>))>>,
      \* the new signer itself, as it will stand in the tree once registered
      <<SignerProof(SignerSign(newSigner),
                    SignatureCreate(newSigner.key,
                        toFields(newSigner.key) \o <<Field(newSigner.signingCount)>>))>> }

SignerBatches(newSigner, witnesses) ==
    { [i \in 1..n |-> attestSigner(i, newSigner, witnesses)] \o tail :
        n \in 0..MaxAttesters, tail \in SignerBatchTails(newSigner, witnesses) }
    \cup { <<SignerProofEmpty>> \o [i \in 1..n |-> attestSigner(i, newSigner, witnesses)] :
            n \in 0..MaxAttesters }

----------------------------------------------------------------------------
(* The specification *)

Initialize ==
    /\ last.op = "none"
    /\ \E c \in InitialCelestiaRoots, n \in InitialSignerCounts, s \in InitialSignerRoots :
            invoke(initialize(c, n, s))

Update ==
    /\ last.op = "none"
    /\ \E witnesses \in {signerWitnesses} :
          \E newBlock \in NewBlocks :
              \E batch \in BlockBatches(newBlock, witnesses) :
                  invoke(update(newBlock, proverArguments(batch)))

Register ==
    /\ last.op = "none"
    /\ \E witnesses \in {signerWitnesses} :
          \E newSigner \in NewSigners(witnesses) :
              \E batch \in SignerBatches(newSigner, witnesses) :
                  invoke(register(newSigner, SignerProofList(batch)))

Observe == observe

Next == Initialize \/ Update \/ Register \/ Observe

Spec == Init /\ [][Next]_vars

----------------------------------------------------------------------------
(* The specification with transactions in flight: each caller builds a     *)
(* transaction on the state it sees and sends it later, after other        *)
(* transactions may have been applied.                                     *)

\* the deployment of the test bench, with no signer counted or with as many
\* as attest in a batch
PrepareInitialize(c) ==
    /\ last.op = "none"
    /\ pending[c].op = "none"
    /\ \E n \in {0, MaxAttesters} :
          prepare(c, initialize(getRoot(emptyTree(CelestiaTreeHeight), CelestiaTreeHeight), n,
                                getRoot(signerTreeLeaves(BlockHash(BlockEmpty)),
                                        SignerTreeHeight)))

\* a block for slot 0 of the caller's copy of the tree, attested by nobody or
\* by the first MaxAttesters signers
PrepareUpdate(c) ==
    /\ last.op = "none"
    /\ pending[c].op = "none"
    /\ \E witnesses \in {signerWitnesses} :
          \E data \in {1, 2}, n \in {0, MaxAttesters} :
              LET newBlock ==
                      Block(data, 0,
                            getWitness(treeOf(celestiaBlocksTree, CelestiaTreeHeight),
                                       CelestiaTreeHeight, 0))
              IN  prepare(c, update(newBlock,
                                    proverArguments([i \in 1..n |->
                                                        attestBlock(i, newBlock, witnesses)])))

\* a new signer for the first unused slot, with or without a signingCount of
\* 0, attested by nobody or by the first signer
PrepareRegister(c) ==
    /\ last.op = "none"
    /\ pending[c].op = "none"
    /\ \E witnesses \in {signerWitnesses} :
          \E signingCount \in {0, 1}, n \in {0, 1} :
              LET newSigner == Signer(newSignerKey, witnesses[SIGNER_COUNT], signingCount)
              IN  prepare(c, register(newSigner,
                                      SignerProofList([i \in 1..n |->
                                                          attestSigner(i, newSigner, witnesses)])))

Send(c) == send(c)

NextRace ==
    \/ \E c \in Callers : PrepareInitialize(c)
    \/ \E c \in Callers : PrepareUpdate(c)
    \/ \E c \in Callers : PrepareRegister(c)
    \/ \E c \in Callers : Send(c)
    \/ Observe

SpecRace == Init /\ [][NextRace]_vars

----------------------------------------------------------------------------
(* The specification of the test bench: the contract is initialized with   *)
(* the signer tree of the bench and any count, and updates for the first   *)
(* slot of the block tree are submitted with every batch of the callers.   *)

\* the largest signerCount for which twenty provers are 60%, the next one, and
\* the largest roster
LargeSignerCounts ==
    {(10 * UPDATE_PROVER_ARGS) \div 6, (10 * UPDATE_PROVER_ARGS) \div 6 + 1, MAX_SIGNER_COUNT}

InitializeBench ==
    /\ last.op = "none"
    /\ \E n \in InitialSignerCounts \cup LargeSignerCounts :
          invoke(initialize(getRoot(emptyTree(CelestiaTreeHeight), CelestiaTreeHeight), n,
                            getRoot(signerTreeLeaves(SignerHash(SignerEmpty)),
                                    SignerTreeHeight)))

UpdateBench ==
    /\ last.op = "none"
    /\ \E witnesses \in {signerWitnesses} :
          \E data \in {1, 2} :
              LET newBlock ==
                      Block(data, 0,
                            getWitness(treeOf(celestiaBlocksTree, CelestiaTreeHeight),
                                       CelestiaTreeHeight, 0))
              IN  \E batch \in BlockBatches(newBlock, witnesses) :
                      invoke(update(newBlock, proverArguments(batch)))

NextBench == InitializeBench \/ UpdateBench \/ Observe

SpecBench == Init /\ [][NextBench]_vars

----------------------------------------------------------------------------
(* The two-root contract of src/src/Photon.ts.  An array of verifiers is   *)
(* kept as its runs: <<[verifier, times], ...>> stands for the array that  *)
(* holds each verifier `times` times (times > 0), run after run.           *)

\* new Verifier(signerKey, signerWitness, signedDataPoint)
Verifier(signerKey, signerWitness, signedDataPoint) ==
    [signerKey |-> signerKey, signerWitness |-> signerWitness,
     signedDataPoint |-> signedDataPoint]

\* Verifier.empty(), once Signature.fromBase58 has decoded the text '0x0000000'
VerifierEmpty == Verifier(EMPTY_PUBLIC_KEY, <<>>, EMPTY_SIGNATURE)

\* Verifier.isEmpty()
VerifierIsEmpty(verifier) == verifier.signerKey = EMPTY_PUBLIC_KEY

\* Verifier.check(root) without its assertion
VerifierCheckUnasserted(verifier, root) == TRUE

\* Verifier.check(root): the assertion it makes
VerifierCheck(verifier, root) ==
    root = calculateRoot(verifier.signerWitness, PoseidonHash(toFields(verifier.signerKey)))

\* Verifier.verify(messageHash): the assertion it makes
VerifierVerify(verifier, messageHash) ==
    SignatureVerify(verifier.signedDataPoint, verifier.signerKey, <<messageHash>>)

\* verifiers.length
verifiersLength(verifiers) ==
    LET RECURSIVE lengthFrom(_)
        lengthFrom(i) == IF i > Len(verifiers) THEN 0
                         ELSE verifiers[i].times + lengthFrom(i + 1)
    IN  lengthFrom(1)

\* fillWithEmptyVerifiers(verifiers)
fillWithEmptyVerifiers(verifiers) ==
    IF verifiersLength(verifiers) < MAX_SIGNER_COUNT
    THEN Append(verifiers, [verifier |-> VerifierEmpty,
                            times |-> MAX_SIGNER_COUNT - verifiersLength(verifiers)])
    ELSE verifiers

\* the counting loop of both methods over the first MAX_SIGNER_COUNT slots of
\* the filled array: verifierIsNotEmpty stays false from the first empty slot on
RECURSIVE countVerifiers(_, _, _, _)
countVerifiers(filledVerifierList, run, scanned, verifierIsNotEmpty) ==
    IF run > Len(filledVerifierList) \/ scanned >= MAX_SIGNER_COUNT THEN 0
    ELSE LET slots == Min(filledVerifierList[run].times, MAX_SIGNER_COUNT - scanned)
             stillNotEmpty ==
                 verifierIsNotEmpty /\ ~VerifierIsEmpty(filledVerifierList[run].verifier)
         IN  (IF stillNotEmpty THEN slots ELSE 0)
             + countVerifiers(filledVerifierList, run + 1, scanned + slots, stillNotEmpty)

\* the opening of both methods without the call of Verifier.verify
verifiersAllowedUnverified(messageHash, verifierList, emptyDecodes) ==
    /\ \A run \in 1..Len(verifierList) :
          VerifierCheck(verifierList[run].verifier, signerRootHash)
    /\ emptyDecodes
    /\ countVerifiers(fillWithEmptyVerifiers(verifierList), 1, 0, TRUE) * 10
           >= MAX_SIGNER_COUNT * 6

\* the check and verify loop, the fill, the count and the quorum assertion
\* that open both methods.  `emptyDecodes`: whether Signature.fromBase58
\* yields a signature for the text '0x0000000' of EMPTY_SIGNATURE (the call
\* fails inside fillWithEmptyVerifiers when it does not)
verifiersAllowed(messageHash, verifierList, emptyDecodes) ==
    /\ \A run \in 1..Len(verifierList) :
          /\ VerifierCheck(verifierList[run].verifier, signerRootHash)
          /\ VerifierVerify(verifierList[run].verifier, messageHash)
    /\ emptyDecodes
    /\ countVerifiers(fillWithEmptyVerifiers(verifierList), 1, 0, TRUE) * 10
           >= MAX_SIGNER_COUNT * 6

\* updateCelestiaData without the assertion on celestiaRootHash
updateCelestiaDataAllowedUnchecked(newCelestiaDataPointHash, verifierList, witness, emptyDecodes) ==
    verifiersAllowed(newCelestiaDataPointHash, verifierList, emptyDecodes)

\* the assertions of updateCelestiaData
updateCelestiaDataAllowed(newCelestiaDataPointHash, verifierList, witness, emptyDecodes) ==
    /\ verifiersAllowed(newCelestiaDataPointHash, verifierList, emptyDecodes)
    /\ celestiaRootHash = calculateRoot(witness, INITIAL_HASH)

\* the two roots as a call finds them
bothRoots == [celestiaRootHash |-> celestiaRootHash, signerRootHash |-> signerRootHash]

\* Photon.updateCelestiaData(newCelestiaDataPointHash, verifierList, witness)
updateCelestiaData(newCelestiaDataPointHash, verifierList, witness, emptyDecodes) ==
    LET call == [op |-> "updateCelestiaData", built |-> TRUE, before |-> bothRoots,
                 args |-> [hash |-> newCelestiaDataPointHash, verifierList |-> verifierList,
                           witness |-> witness, emptyDecodes |-> emptyDecodes]]
    IN  /\ last.op = "none"
        /\ IF updateCelestiaDataAllowed(newCelestiaDataPointHash, verifierList, witness,
                                        emptyDecodes)
           THEN /\ celestiaRootHash' = calculateRoot(witness, newCelestiaDataPointHash)
                /\ last' = [call EXCEPT !.built = TRUE] @@ [outcome |-> "committed"]
           ELSE /\ UNCHANGED celestiaRootHash
                /\ last' = [call EXCEPT !.built = FALSE] @@ [outcome |-> "rejected"]
        /\ UNCHANGED <<signerRootHash, persisted, actions, initialized, pending>>

\* Photon.addSigner(newSignerKeyHash, verifierList, witness)
addSigner(newSignerKeyHash, verifierList, witness, emptyDecodes) ==
    LET call == [op |-> "addSigner", built |-> TRUE, before |-> bothRoots,
                 args |-> [hash |-> newSignerKeyHash, verifierList |-> verifierList,
                           witness |-> witness, emptyDecodes |-> emptyDecodes]]
    IN  /\ last.op = "none"
        /\ IF verifiersAllowed(newSignerKeyHash, verifierList, emptyDecodes)
           THEN /\ signerRootHash' = calculateRoot(witness, newSignerKeyHash)
                /\ last' = [call EXCEPT !.built = TRUE] @@ [outcome |-> "committed"]
           ELSE /\ UNCHANGED signerRootHash
                /\ last' = [call EXCEPT !.built = FALSE] @@ [outcome |-> "rejected"]
        /\ UNCHANGED <<celestiaRootHash, persisted, actions, initialized, pending>>

----------------------------------------------------------------------------
(* Specification SpecTwoRoot: calls of the two-root contract.  The roots   *)
(* start as init() leaves them or as roots of trees of data points and of  *)
(* signer keys, the states the two methods are written for.                *)

\* the hash a data point is committed under, and the leaf of a signer key
dataPointHash(n) == PoseidonHash(<<Field(n)>>)
signerKeyHash(key) == PoseidonHash(toFields(key))

\* the keys of the signer tree at the start (key k in slot k - 1), the key
\* that asks to be added, and the slots a caller aims a data point at
MemberKeys == 1..2
addedKey == 3
TargetSlots == 0..1

\* the least number of verifiers that meets the quorum assertion
QuorumOfAll == (MAX_SIGNER_COUNT * 6 + 9) \div 10

memberLeaves ==
    [i \in 0..(leafCount(MerkleTreeHeight) - 1) |->
        IF i + 1 \in MemberKeys THEN signerKeyHash(i + 1) ELSE INITIAL_HASH]

InitialDataRoots ==
    {INITIAL_HASH,
     getRoot(emptyTree(MerkleTreeHeight), MerkleTreeHeight),
     getRoot([emptyTree(MerkleTreeHeight) EXCEPT ![0] = dataPointHash(0)], MerkleTreeHeight)}

InitialKeyRoots == {INITIAL_HASH, getRoot(memberLeaves, MerkleTreeHeight)}

InitTwoRoot ==
    /\ celestiaBlocksTree = EMPTY_HASH
    /\ signerCount = 0
    /\ signersTree = EMPTY_HASH
    /\ signersTreeAccumulator = initialActionState
    /\ actions = <<>>
    /\ last = NoCall
    /\ initialized = FALSE
    /\ pending = [c \in Callers |-> NoTransaction]
    /\ celestiaRootHash \in InitialDataRoots
    /\ signerRootHash \in InitialKeyRoots

\* the verifier a caller builds for `key` over `messageHash`, with the witness
\* of slot key - 1 of the signer tree it holds for the current root
keyVerifier(key, messageHash) ==
    Verifier(key,
             getWitness(treeOf(signerRootHash, MerkleTreeHeight), MerkleTreeHeight, key - 1),
             SignatureCreate(key, <<messageHash>>))

\* the verifier arrays a caller supplies with `messageHash`: none, a quorum of
\* one member, one short of it, one more than the methods count, a quorum of
\* two members, a quorum behind a key that is no member, and a quorum followed
\* by a signature over another hash
VerifierLists(messageHash) ==
    {<<>>,
     <<[verifier |-> keyVerifier(1, messageHash), times |-> MAX_SIGNER_COUNT + 1]>>,
     <<[verifier |-> keyVerifier(1, messageHash), times |-> QuorumOfAll]>>,
     <<[verifier |-> keyVerifier(1, messageHash), times |-> QuorumOfAll - 1]>>,
     <<[verifier |-> keyVerifier(1, messageHash), times |-> QuorumOfAll \div 2],
       [verifier |-> keyVerifier(2, messageHash), times |-> QuorumOfAll - QuorumOfAll \div 2]>>,
     <<[verifier |-> Verifier(strangerKey,
                              getWitness(treeOf(signerRootHash, MerkleTreeHeight),
                                         MerkleTreeHeight, 0),
                              SignatureCreate(strangerKey, <<messageHash>>)),
        times |-> 1],
       [verifier |-> keyVerifier(1, messageHash), times |-> QuorumOfAll]>>,
     <<[verifier |-> keyVerifier(1, messageHash), times |-> QuorumOfAll],
       [verifier |-> keyVerifier(2, dataPointHash(0)), times |-> 1]>>}

\* the witnesses a caller supplies for a tree: of a slot of the tree it holds
\* for the current root, or of slot 0 of the empty tree
WitnessesUnder(root, slots) ==
    {getWitness(treeOf(root, MerkleTreeHeight), MerkleTreeHeight, slot) : slot \in slots}
    \cup {getWitness(emptyTree(MerkleTreeHeight), MerkleTreeHeight, 0)}

\* the hashes a caller submits as data points; the method takes any Field
SubmittedHashes == {dataPointHash(1), dataPointHash(2), INITIAL_HASH}

UpdateCelestiaData ==
    \E hash \in SubmittedHashes :
    \E verifierList \in VerifierLists(hash) :
    \E witness \in WitnessesUnder(celestiaRootHash, TargetSlots) :
    \E emptyDecodes \in BOOLEAN :
        updateCelestiaData(hash, verifierList, witness, emptyDecodes)

AddSigner ==
    \E verifierList \in VerifierLists(signerKeyHash(addedKey)) :
    \E witness \in WitnessesUnder(signerRootHash, {addedKey - 1}) :
    \E emptyDecodes \in BOOLEAN :
        addSigner(signerKeyHash(addedKey), verifierList, witness, emptyDecodes)

NextTwoRoot == UpdateCelestiaData \/ AddSigner \/ Observe

SpecTwoRoot == InitTwoRoot /\ [][NextTwoRoot]_vars

\* Specification SpecDeployed: the same calls from the state init() leaves
SpecDeployed == Init /\ [][NextTwoRoot]_vars

----------------------------------------------------------------------------
(* What the properties observe of a call *)

committed(call) == call.outcome = "committed"
rejected(call) == call.outcome = "rejected"

\* the call was rejected although the method built its transaction: a
\* precondition on the state did not hold when it was sent
rejectedAsStale(call) == call.outcome = "rejected" /\ call.built

\* the non-sentinel slots of the prover arguments of an update call
blockAttestations(call) ==
    {i \in 1..Len(call.args.provers) : ~BlockProofIsEmpty(call.args.provers[i])}

\* every non-sentinel slot of an update call verifies for the submitted block under `root`
blockAttestationsVerify(call, root) ==
    \A i \in blockAttestations(call) :
        BlockProofVerify(call.args.provers[i], root, call.args.newBlock)

\* the distinct signer keys that attest in an update call
blockAttesters(call) == {call.args.provers[i].signer.key : i \in blockAttestations(call)}

\* the non-sentinel slots of the batch of a register call
signerAttestations(call) ==
    {i \in 1..Len(call.args.provers.prefix) : ~SignerProofIsEmpty(call.args.provers.prefix[i])}

\* every non-sentinel slot of a register call verifies for the new signer under `root`
signerAttestationsVerify(call, root) ==
    \A i \in signerAttestations(call) :
        SignerProofVerify(call.args.provers.prefix[i], root, call.args.newSigner)

----------------------------------------------------------------------------
(* Properties *)

\* C1: update quorum floor.  With signerCount N > 0 and a batch whose
\* non-sentinel slots all verify for the submitted block, k being the number of
\* non-sentinel slots, update commits if and only if 10 * k >= 6 * N, and a
\* rejected update leaves celestiaBlocksTree unchanged.
C1_UpdateQuorumFloor ==
    [][ (last'.op = "update" /\ signerCount > 0 /\ blockAttestationsVerify(last', signersTree))
        => /\ committed(last') <=> (10 * Cardinality(blockAttestations(last')) >= 6 * signerCount)
           /\ rejected(last') => celestiaBlocksTree' = celestiaBlocksTree ]_vars

\* C1 witness: 3 of 5 signers attest and the update has committed
C1_Witness ==
    /\ last.op = "update" /\ committed(last)
    /\ signerCount = 5
    /\ Cardinality(blockAttestations(last)) = 3
    /\ blockAttestationsVerify(last, signersTree)

\* C2 (as claimed): register quorum floor.  With signerCount N > 0, a new signer
\* with signingCount 0 whose witness passes the empty-slot check, and a batch
\* whose k non-sentinel slots all verify for the new signer under signersTree,
\* register commits if and only if 10 * k >= 6 * N.
C2_RegisterQuorumFloor ==
    [][ (/\ last'.op = "register" /\ signerCount > 0
         /\ last'.args.newSigner.signingCount = 0
         /\ slotIsFree(last'.args.newSigner)
         /\ signerAttestationsVerify(last', signersTree))
        => (committed(last') <=> (10 * Cardinality(signerAttestations(last')) >= 6 * signerCount)) ]_vars

\* C3 (as claimed): with signerCount N >= 2, update never commits when fewer
\* than 60% of N distinct signers attest.
C3_DistinctQuorum ==
    [][ (/\ last'.op = "update" /\ signerCount >= 2
         /\ 10 * Cardinality(blockAttesters(last')) < 6 * signerCount)
        => (rejected(last') /\ celestiaBlocksTree' = celestiaBlocksTree) ]_vars

\* C4: atomicity.  A call that fails, by an assertion of the method or by a
\* precondition on state that other transactions have changed since it was
\* built, leaves the four persisted fields and the action log as they were,
\* and a call that commits has applied every one of its writes.
C4_Atomicity ==
    [][ /\ rejected(last') => UNCHANGED <<persisted, actions>>
        /\ (last'.op = "initialize" /\ committed(last'))
           => /\ celestiaBlocksTree' = last'.args.initialCelestiaRootHash
              /\ signerCount' = last'.args.initialSignerCount
              /\ signersTree' = last'.args.initialSignerRootHash
        /\ (last'.op = "update" /\ committed(last'))
           => celestiaBlocksTree' = calculateRoot(last'.args.newBlock.witness,
                                                  BlockHash(last'.args.newBlock))
        /\ (last'.op = "register" /\ committed(last'))
           => /\ signerCount' = signerCount + 1
              /\ signersTree' = registerFold.state
              /\ signersTreeAccumulator' = registerFold.actionState ]_vars

\* C4 witness: an update whose own assertions pass, with a quorum of valid
\* attestations, was rejected because the state had moved on since it was
\* built, and its root is not the one in place
C4_Witness ==
    /\ last.op = "update" /\ rejected(last)
    /\ signerCount = MaxAttesters
    /\ updateAllowed(last.args.newBlock, last.args.provers)
    /\ celestiaBlocksTree # newCelestiaBlocksTree(last.args.newBlock)

\* C5 (as claimed): once an initialize has committed, every later initialize is
\* rejected and changes no field.
C5_InitializeOnce ==
    [][ (initialized /\ last'.op = "initialize")
        => (rejected(last') /\ UNCHANGED persisted) ]_vars

\* C6: a committed initialize leaves exactly the supplied values in
\* celestiaBlocksTree, signerCount and signersTree, and signersTreeAccumulator
\* at Reducer.initialActionState.
C6_InitializeSetsState ==
    (last.op = "initialize" /\ committed(last))
    => /\ celestiaBlocksTree = last.args.initialCelestiaRootHash
       /\ signerCount = last.args.initialSignerCount
       /\ signersTree = last.args.initialSignerRootHash
       /\ signersTreeAccumulator = initialActionState

\* C6 witness: initialize has committed with non-zero values
C6_Witness ==
    /\ last.op = "initialize" /\ committed(last)
    /\ last.args.initialCelestiaRootHash # EMPTY_HASH
    /\ last.args.initialSignerCount = 5
    /\ last.args.initialSignerRootHash # EMPTY_HASH

\* C7 (as claimed): a committed update makes celestiaBlocksTree the root of the
\* previous tree with the leaf at slot newBlock.height replaced by the block
\* hash and every other leaf as before.
C7_UpdateReplacesLeaf ==
    [][ (/\ last'.op = "update" /\ committed(last')
         /\ isTreeRoot(celestiaBlocksTree, CelestiaTreeHeight - 1))
        => celestiaBlocksTree' =
             getRoot([treeOf(celestiaBlocksTree, CelestiaTreeHeight)
                        EXCEPT ![last'.args.newBlock.height] = BlockHash(last'.args.newBlock)],
                     CelestiaTreeHeight) ]_vars

C10_ExactlyOnceCounting ==
    [][ (last'.op = "register" /\ committed(last'))
        => LET before == treeOf(signersTree, SignerTreeHeight)
               after == treeOf(signersTree', SignerTreeHeight)
               provers == last'.args.provers.prefix
               attesting(slot) == {i \in signerAttestations(last') :
                                     calculateIndex(provers[i].signer.witness) = slot}
           IN  \A slot \in DOMAIN before :
                 after[slot] =
                   IF slot = calculateIndex(last'.args.newSigner.witness)
                   THEN SignerHash(SignerSign(last'.args.newSigner))
                   ELSE IF attesting(slot) # {}
                        THEN SignerHash(SignerSign(provers[CHOOSE i \in attesting(slot) : TRUE].signer))
                        ELSE before[slot] ]_vars

\* C11 (as claimed): register commits only if the witness of the new signer
\* proves that its target slot holds Signer.empty().hash(), the leaf unused
\* slots of the signer tree are filled with, under the signersTree it read; a
\* slot that holds any other leaf is rejected with no state change.
C11_SlotHoldsEmptySigner ==
    [][ (/\ last'.op = "register"
         /\ signersTree # calculateRoot(last'.args.newSigner.witness, SignerHash(SignerEmpty)))
        => (rejected(last') /\ UNCHANGED persisted) ]_vars

\* the non-sentinel slots of a register call that hold a signer that also
\* holds an earlier non-sentinel slot
repeatedAttestations(call) ==
    {i \in signerAttestations(call) :
        \E j \in signerAttestations(call) :
            j < i /\ call.args.provers.prefix[j].signer.key = call.args.provers.prefix[i].signer.key}

\* C12 (as claimed): a register whose batch holds two non-sentinel attestations
\* of the same signer never commits, and persists no root, count or cursor.
C12_DuplicateAttesterRejected ==
    [][ (last'.op = "register" /\ repeatedAttestations(last') # {})
        => (rejected(last') /\ UNCHANGED persisted) ]_vars

\* the action lists in the log that the register call `call` would dispatch:
\* the same registration, sent before
sentBefore(call) ==
    {i \in 1..Len(actions) :
        actions[i] = dispatched(call.args.provers, call.args.newSigner)}

C14_SentinelNeutrality ==
    [][ /\ (last'.op = "update" /\ blockAttestations(last') = {})
           => /\ updateScan(BlockProofList(last'.args.provers), signersTree,
                            last'.args.newBlock, 1,
                            [allValid |-> TRUE, currSignerCount |-> 0]).currSignerCount = 0
              /\ signerCount > 0 => (rejected(last') /\ UNCHANGED <<persisted, actions>>)
        /\ (/\ last'.op = "register" /\ signerAttestations(last') = {}
            /\ SignerProofIsEmpty(last'.args.provers.filler))
           => /\ registerScan(last'.args.provers, signersTree, last'.args.newSigner, 1,
                              [allValid |-> TRUE, currSignerCount |-> 0]).currSignerCount = 0
              /\ signerCount > 0 => (rejected(last') /\ UNCHANGED <<persisted, actions>>) ]_vars

\* C14 witness: with 5 signers counted, an update for an unused slot with
\* twenty empty provers was rejected
C14_Witness ==
    /\ last.op = "update" /\ rejected(last)
    /\ signerCount = 5
    /\ blockAttestations(last) = {}
    /\ \A i \in 1..UPDATE_PROVER_ARGS : BlockProofIsEmpty(last.args.provers[i])

\* the non-sentinel slots of an update call whose signer is not in the tree
\* under `root`, whose signature is not over the hash of the submitted block,
\* or whose height is not the height of the submitted block
blockAttestationsFailing(call, root) ==
    {i \in blockAttestations(call) :
        LET proof == call.args.provers[i]
        IN  \/ ~SignerCheck(proof.signer, root)
            \/ ~SignatureVerify(proof.signedBlockHash, proof.signer.key,
                                <<BlockHash(call.args.newBlock)>>)
            \/ proof.signedBlockHeight # call.args.newBlock.height}

\* C15: a non-sentinel slot that fails a check is a hard error.  An update with
\* a non-sentinel prover whose signer is not in the tree under signersTree,
\* whose signature is not valid for the block hash under its key, or whose
\* signedBlockHeight is not the height of the block, is rejected and changes
\* nothing, whatever the number of valid provers beside it.
C15_InvalidAttestationRejects ==
    [][ (last'.op = "update" /\ blockAttestationsFailing(last', signersTree) # {})
        => (rejected(last') /\ UNCHANGED <<persisted, actions>>) ]_vars

\* C15 witness: with 3 signers counted, an update with 3 valid provers and one
\* that signed the block for another height was rejected
C15_Witness ==
    /\ last.op = "update" /\ rejected(last)
    /\ signerCount = 3
    /\ Cardinality(blockAttestations(last)) = 4
    /\ Cardinality(blockAttestationsFailing(last, signersTree)) = 1
    /\ \E i \in blockAttestationsFailing(last, signersTree) :
          LET proof == last.args.provers[i]
          IN  /\ SignerCheck(proof.signer, signersTree)
              /\ SignatureVerify(proof.signedBlockHash, proof.signer.key,
                                 <<BlockHash(last.args.newBlock)>>)
              /\ proof.signedBlockHeight # last.args.newBlock.height

\* caller c sends, in this step, the transaction of method `op` it has kept
sends(c, op) == pending[c].op = op /\ pending'[c].op = "none"

\* the snapshot a kept transaction was built on differs from the present state
\* in one of `fields`
staleIn(tx, fields) == \E f \in fields : tx.expected[f] # onChain[f]

\* C16 (as claimed): optimistic concurrency of update.  An update built on a
\* snapshot commits only if the four persisted fields still equal the snapshot
\* when it is sent, and otherwise changes nothing; and once one of two updates
\* with different blocks built on the same snapshot has committed, the snapshot
\* of the other is stale, so that at most one of them commits.
C16_UpdateConcurrency ==
    [][ \A c \in Callers :
          sends(c, "update")
          => /\ staleIn(pending[c], {"celestiaBlocksTree", "signerCount", "signersTree",
                                     "signersTreeAccumulator"})
                => (rejected(last') /\ UNCHANGED <<persisted, actions>>)
             /\ \A d \in Callers \ {c} :
                  (/\ committed(last')
                   /\ pending[d].op = "update"
                   /\ pending[d].expected = pending[c].expected
                   /\ pending[d].args.newBlock # pending[c].args.newBlock)
                  => pending[d].expected # onChain' ]_vars

\* C17: optimistic concurrency of register.  A register built on a snapshot
\* whose signerCount, signersTree or signersTreeAccumulator no longer equals
\* the persisted value when it is sent is rejected, changes no field and adds
\* none of its actions to the log; and once one of two registers built on the
\* same snapshot has committed, the snapshot of the other is stale, so that at
\* most one of them commits.
C17_RegisterConcurrency ==
    [][ \A c \in Callers :
          sends(c, "register")
          => /\ staleIn(pending[c], {"signerCount", "signersTree", "signersTreeAccumulator"})
                => (rejected(last') /\ UNCHANGED <<persisted, actions>>)
             /\ \A d \in Callers \ {c} :
                  (/\ committed(last')
                   /\ pending[d].op = "register"
                   /\ \A f \in {"signerCount", "signersTree", "signersTreeAccumulator"} :
                         pending[d].expected[f] = pending[c].expected[f])
                  => staleIn(pending[d], {"signerCount", "signersTree",
                                          "signersTreeAccumulator"})' ]_vars

\* C17 witness: of two different registrations built on the same snapshot one
\* has committed, and the other, sent after it, was rejected; the log holds
\* the actions of the first only
C17_Witness ==
    /\ last.op = "register" /\ rejectedAsStale(last)
    /\ sentBefore(last) = {}
    /\ Len(actions) = 1
    /\ actions[1].newSigner = last.args.newSigner
    /\ signerCount = 1

\* C18: signerCount is monotone.  A committed initialize sets signerCount to
\* its argument while no register has committed yet, a committed register adds
\* exactly one, and no other step changes it: signerCount is the count given to
\* initialize plus the number of committed registers, and never decreases.
C18_SignerCountMonotone ==
    [][ /\ signerCount' >= signerCount
        /\ IF last'.op = "register" /\ committed(last')
           THEN signerCount' = signerCount + 1 /\ Len(actions') = Len(actions) + 1
           ELSE IF last'.op = "initialize" /\ committed(last')
                THEN signerCount' = last'.args.initialSignerCount /\ Len(actions) = 0
                ELSE signerCount' = signerCount /\ Len(actions') = Len(actions) ]_vars

\* C18 witness: after initialize and one committed register, an update was
\* rejected and signerCount is one above the count given to initialize
C18_Witness ==
    /\ initialized
    /\ last.op = "update" /\ rejected(last)
    /\ Len(actions) = 1
    /\ signerCount = 1

\* C19 (as claimed): a committed register whose batch has k non-sentinel slots
\* appends k + 1 actions to the log, one per attesting signer and one for the
\* new signer, and none for an empty slot.
C19_OneActionPerAttester ==
    [][ (last'.op = "register" /\ committed(last'))
        => /\ Len(actions') = Len(actions) + 1
           /\ LET queued == actionsOf(actions'[Len(actions')])
              IN  /\ Len(queued) = Cardinality(signerAttestations(last')) + 1
                  /\ \A j \in 1..Len(queued) : ~SignerIsEmpty(queued[j]) ]_vars

\* C20 (as claimed): the message attested in register is the hash of the new
\* signer.  A non-sentinel prover whose signer is in the tree under signersTree
\* is accepted by the check of register if and only if its signature is valid
\* for the one-field message [newSigner.hash()] under its key.
C20_AttestedMessageIsHash ==
    [][ last'.op = "register"
        => \A i \in signerAttestations(last') :
              LET proof == last'.args.provers.prefix[i]
              IN  SignerCheck(proof.signer, signersTree)
                  => (SignerProofVerify(proof, signersTree, last'.args.newSigner)
                      <=> SignatureVerify(proof.signedSignerHash, proof.signer.key,
                                          <<SignerHash(last'.args.newSigner)>>)) ]_vars

\* C21 (as claimed): with signerCount 0 every update and every register is
\* rejected, whatever the batch, and changes nothing.
C21_NoSignersNoQuorum ==
    [][ (last'.op \in {"update", "register"} /\ signerCount = 0)
        => (rejected(last') /\ UNCHANGED <<persisted, actions>>) ]_vars

\* the leaf that the witness of the block of an update call addresses in the
\* tree under `root`, when `root` is the root of a tree and the witness is the
\* witness of that slot in it; Field(0), the leaf of an unused slot, otherwise
addressedLeaf(call, root) ==
    LET witness == call.args.newBlock.witness
        tree == treeOf(root, CelestiaTreeHeight)
    IN  IF /\ isTreeRoot(root, CelestiaTreeHeight - 1)
           /\ witness = getWitness(tree, CelestiaTreeHeight, calculateIndex(witness))
        THEN tree[calculateIndex(witness)]
        ELSE Field(0)

\* C22: update has no check that the slot is unused.  With a quorum of valid
\* provers, an update whose witness addresses a slot of the current tree that
\* already holds a block hash commits, and celestiaBlocksTree becomes the root
\* of the tree with that leaf replaced and every other leaf as before.
C22_UpdateOverwritesEntry ==
    [][ (/\ last'.op = "update"
         /\ addressedLeaf(last', celestiaBlocksTree) # Field(0)
         /\ blockAttestationsVerify(last', signersTree)
         /\ signerCount > 0
         /\ 10 * Cardinality(blockAttestations(last')) >= 6 * signerCount)
        => /\ committed(last')
           /\ celestiaBlocksTree' =
                getRoot([treeOf(celestiaBlocksTree, CelestiaTreeHeight)
                           EXCEPT ![calculateIndex(last'.args.newBlock.witness)] =
                                      BlockHash(last'.args.newBlock)],
                        CelestiaTreeHeight) ]_vars

\* C22 witness: an update has committed on a slot that held the hash of another
\* block, which is no longer in the tree
C22_Witness ==
    /\ last.op = "update" /\ committed(last)
    /\ addressedLeaf(last, last.before.celestiaBlocksTree) # Field(0)
    /\ addressedLeaf(last, last.before.celestiaBlocksTree) # BlockHash(last.args.newBlock)
    /\ \A slot \in 0..(leafCount(CelestiaTreeHeight) - 1) :
          treeOf(celestiaBlocksTree, CelestiaTreeHeight)[slot]
              # addressedLeaf(last, last.before.celestiaBlocksTree)

\* C23: a register whose new signer has a signingCount other than 0 is
\* rejected, whatever the batch, changes no field and queues no action.
C23_SigningCountMustBeZero ==
    [][ (last'.op = "register" /\ last'.args.newSigner.signingCount # 0)
        => (rejected(last') /\ UNCHANGED <<persisted, actions>>) ]_vars

\* C23 witness: a register that passes every other check (unused slot, valid
\* provers, quorum with signerCount 0) was rejected for a signingCount of 1
C23_Witness ==
    /\ last.op = "register" /\ rejected(last)
    /\ last.args.newSigner.signingCount = 1
    /\ signerCount = 0
    /\ slotIsFree(last.args.newSigner)
    /\ signerAttestations(last) # {}
    /\ signerAttestationsVerify(last, signersTree)

\* the root the signer tree has once the new signer of a register call stands
\* in its slot with its first signing counted
rootWithNewSigner(call) ==
    calculateRoot(call.args.newSigner.witness, SignerHash(SignerSign(call.args.newSigner)))

\* C24: the provers of a register are verified against the signersTree read at
\* the start of the call.  A register with a non-sentinel prover whose signer
\* is not in the tree under that root is rejected and changes nothing, also
\* when the signer is in the tree under the root that results from the call.
C24_MembershipAgainstStartRoot ==
    [][ (/\ last'.op = "register"
         /\ \E i \in signerAttestations(last') :
               ~SignerCheck(last'.args.provers.prefix[i].signer, signersTree))
        => (rejected(last') /\ UNCHANGED <<persisted, actions>>) ]_vars

\* C24 witness: a register for an unused slot with signingCount 0 and
\* signerCount 0 was rejected because the new signer attests for itself: it is
\* in the tree under the resulting root, not under the root read at the start
C24_Witness ==
    /\ last.op = "register" /\ rejected(last)
    /\ last.args.newSigner.signingCount = 0
    /\ signerCount = 0
    /\ slotIsFree(last.args.newSigner)
    /\ \E i \in signerAttestations(last) :
          LET proof == last.args.provers.prefix[i]
          IN  /\ ~SignerCheck(proof.signer, signersTree)
              /\ SignerCheck(proof.signer, rootWithNewSigner(last))
              /\ SignatureVerify(proof.signedSignerHash, proof.signer.key,
                                 toFields(last.args.newSigner.key)
                                     \o <<Field(last.args.newSigner.signingCount)>>)
              /\ \A j \in signerAttestations(last) \ {i} :
                    SignerProofVerify(last.args.provers.prefix[j], signersTree,
                                      last.args.newSigner)

\* C25: lifecycle.  Before an initialize has committed, every update and every
\* register is rejected, and the persisted fields change only by a committed
\* initialize.
C25_NothingBeforeInitialize ==
    [][ ~initialized
        => /\ last'.op \in {"update", "register"}
              => (rejected(last') /\ UNCHANGED <<persisted, actions>>)
           /\ persisted' # persisted => (last'.op = "initialize" /\ committed(last')) ]_vars

\* C25 witness: on the deployed contract, before any initialize, a register
\* with signingCount 0 and an all-empty batch was rejected
C25_Witness ==
    /\ ~initialized
    /\ last.op = "register" /\ rejected(last)
    /\ last.args.newSigner.signingCount = 0
    /\ signerAttestations(last) = {}
    /\ signersTree = EMPTY_HASH /\ signerCount = 0 /\ celestiaBlocksTree = EMPTY_HASH

\* the prover arguments with the slots i and j exchanged
exchanged(proverArgs, i, j) ==
    [k \in DOMAIN proverArgs |->
        IF k = i THEN proverArgs[j] ELSE IF k = j THEN proverArgs[i] ELSE proverArgs[k]]

\* the slots the batches of the callers use, and one more
SuppliedSlots == 1..(MaxAttesters + 3)

\* C26: quorum counting in update is order-independent.  Exchanging any two of
\* the supplied prover slots, empty ones included, changes neither whether the
\* update commits nor the root it commits.
C26_OrderIndependentQuorum ==
    [][ last'.op = "update"
        => \A i \in SuppliedSlots, j \in SuppliedSlots :
              LET other == update(last'.args.newBlock, exchanged(last'.args.provers, i, j))
              IN  /\ committed(last') <=> other.ok
                  /\ committed(last')
                     => celestiaBlocksTree' = other.values.celestiaBlocksTree ]_vars

\* C26 witness: an update has committed with an empty prover in the first slot
\* and MaxAttesters valid ones behind it
C26_Witness ==
    /\ last.op = "update" /\ committed(last)
    /\ BlockProofIsEmpty(last.args.provers[1])
    /\ Cardinality(blockAttestations(last)) = MaxAttesters
    /\ signerCount >= 2

\* C27 (as claimed): the quorum is satisfiable up to the supported roster.  In
\* every state with 1 <= signerCount <= MAX_SIGNER_COUNT and the signers of
\* the bench in the tree, all willing to attest, some prover arguments make an
\* update for a block commit.
C27_QuorumSatisfiable ==
    (/\ signerCount >= 1 /\ signerCount <= MAX_SIGNER_COUNT
     /\ SignerCheck(registeredSigner(1, signerWitnesses[0]), signersTree))
    => \E n \in 0..UPDATE_PROVER_ARGS :
          LET newBlock ==
                  Block(1, 0, getWitness(treeOf(celestiaBlocksTree, CelestiaTreeHeight),
                                         CelestiaTreeHeight, 0))
          IN  update(newBlock,
                     proverArguments(attestInTurn(n, newBlock, signerWitnesses))).ok

\* C28 (as claimed): between operations signersTreeAccumulator marks the end
\* of the action log: a committed register has folded every action queued so
\* far, its own included.
C28_NoUndrainedAction ==
    last.op = "none" => signersTreeAccumulator = Len(actions)

\* C29: a register that fails at any step appends no action to the log, and the
\* log changes only by a committed register, which appends the action list it
\* dispatched.
C29_FailedRegisterQueuesNothing ==
    [][ /\ (last'.op = "register" /\ rejected(last')) => actions' = actions
        /\ actions' # actions
           => /\ last'.op = "register" /\ committed(last')
              /\ actions' = Append(actions, dispatched(last'.args.provers,
                                                       last'.args.newSigner)) ]_vars

\* C29 witness: a register for an unused slot, with signingCount 0 and valid
\* provers, failed the quorum assertion, which follows the dispatch of the
\* signers of the batch, and the log is empty
C29_Witness ==
    /\ last.op = "register" /\ rejected(last)
    /\ last.args.newSigner.signingCount = 0
    /\ slotIsFree(last.args.newSigner)
    /\ signerAttestations(last) # {}
    /\ signerAttestationsVerify(last, signersTree)
    /\ signerCount >= 1
    /\ actions = <<>>

\* the leaf at `slot` of the data-point tree under `root` (INITIAL_HASH: no data point)
dataPointAt(root, slot) == treeOf(root, MerkleTreeHeight)[slot]

DataSlots == 0..(leafCount(MerkleTreeHeight) - 1)

\* C30: in the two-root contract, updateCelestiaData commits only if the
\* supplied witness proves that the slot it addresses holds INITIAL_HASH under
\* the current celestiaRootHash, and then sets celestiaRootHash to the root
\* with that one leaf replaced by the new data-point hash; and no step of any
\* operation overwrites or removes a data point a slot already holds.
C30_DataPointsAreKept ==
    [][ /\ (last.op = "none" /\ last'.op = "updateCelestiaData" /\ committed(last')) =>
              /\ celestiaRootHash = calculateRoot(last'.args.witness, INITIAL_HASH)
              /\ dataPointAt(celestiaRootHash, calculateIndex(last'.args.witness)) = INITIAL_HASH
              /\ celestiaRootHash' = calculateRoot(last'.args.witness, last'.args.hash)
              /\ \A slot \in DataSlots :
                    dataPointAt(celestiaRootHash', slot) =
                        IF slot = calculateIndex(last'.args.witness)
                        THEN last'.args.hash
                        ELSE dataPointAt(celestiaRootHash, slot)
        /\ \A slot \in DataSlots :
              dataPointAt(celestiaRootHash, slot) # INITIAL_HASH =>
                  dataPointAt(celestiaRootHash', slot) = dataPointAt(celestiaRootHash, slot)
      ]_vars

\* an update has committed a data point into slot 1 of a tree that held one in
\* slot 0, and slot 0 still holds it
C30_Witness ==
    /\ last.op = "updateCelestiaData"
    /\ committed(last)
    /\ dataPointAt(last.before.celestiaRootHash, 0) # INITIAL_HASH
    /\ dataPointAt(celestiaRootHash, 0) = dataPointAt(last.before.celestiaRootHash, 0)
    /\ dataPointAt(last.before.celestiaRootHash, 1) = INITIAL_HASH
    /\ dataPointAt(celestiaRootHash, 1) = last.args.hash

\* a step in which a call of the two-root contract commits
commitsTwoRoot == last.op = "none" /\ last'.op \in {"updateCelestiaData", "addSigner"}
                  /\ committed(last')

\* `key` has a leaf in the signer-key tree under `root`
isMember(key, root) ==
    /\ isTreeRoot(root, MerkleTreeHeight - 1)
    /\ \E slot \in DataSlots : treeOf(root, MerkleTreeHeight)[slot] = signerKeyHash(key)

\* C31: updateCelestiaData and addSigner commit only if every supplied
\* verifier is a member of the signer tree under the current signerRootHash
\* and carries a valid signature over the submitted hash, and the number k of
\* supplied verifiers satisfies 10 * k >= 6 * MAX_SIGNER_COUNT.
C31_VerifierQuorum ==
    [][ commitsTwoRoot =>
          /\ \A run \in 1..Len(last'.args.verifierList) :
                LET verifier == last'.args.verifierList[run].verifier
                IN  /\ isMember(verifier.signerKey, signerRootHash)
                    /\ verifier.signedDataPoint.signer = verifier.signerKey
                    /\ verifier.signedDataPoint.msg = <<last'.args.hash>>
          /\ 10 * verifiersLength(last'.args.verifierList) >= 6 * MAX_SIGNER_COUNT
      ]_vars

\* a call has committed on the signatures of two members that make up the
\* quorum together
C31_Witness ==
    /\ last.op \in {"updateCelestiaData", "addSigner"}
    /\ committed(last)
    /\ Len(last.args.verifierList) = 2
    /\ last.args.verifierList[1].verifier.signerKey
           # last.args.verifierList[2].verifier.signerKey
    /\ verifiersLength(last.args.verifierList) = QuorumOfAll

\* the leaf at `slot` of the signer-key tree under `root`
signerKeyAt(root, slot) == treeOf(root, MerkleTreeHeight)[slot]

C33_DeployedNeverCommits ==
    /\ celestiaRootHash = INITIAL_HASH
    /\ signerRootHash = INITIAL_HASH
    /\ ~committed(last)

\* a call that brought a quorum of signed verifiers, with Verifier.empty()
\* decoding, has been rejected
C33_Witness ==
    /\ last.op \in {"updateCelestiaData", "addSigner"}
    /\ rejected(last)
    /\ last.args.emptyDecodes
    /\ Len(last.args.verifierList) = 1
    /\ verifiersLength(last.args.verifierList) = QuorumOfAll
    /\ VerifierVerify(last.args.verifierList[1].verifier, last.args.hash)

\* `list` holds exactly MAX_SIGNER_COUNT slots: the attestations of
\* `supplied` in their order, then sentinel attestations only
paddedToMaxSigners(list, supplied, sentinel) ==
    /\ list.length = MAX_SIGNER_COUNT
    /\ list.prefix = supplied
    /\ list.filler = sentinel

\* C34 (as claimed): every attestation batch built by BlockProofList or
\* SignerProofList from at most MAX_SIGNER_COUNT attestations has exactly
\* MAX_SIGNER_COUNT slots: the supplied attestations in their original order
\* followed only by sentinel attestations.
C34_BatchHasMaxSignersSlots ==
    /\ (last.op = "update" /\ Len(last.args.provers) <= MAX_SIGNER_COUNT) =>
          paddedToMaxSigners(BlockProofList(last.args.provers), last.args.provers,
                             BlockProofEmpty)
    /\ last.op = "register" =>
          paddedToMaxSigners(last.args.provers, last.args.provers.prefix, SignerProofEmpty)

====
